---- MODULE Spec2Model ----
(***************************************************************************)
(* GazeStudy calibration app (src/app.py): the Streamlit session state,    *)
(* the button handlers of main(), the calibration interface, the           *)
(* statistics panel and the JSON export.                                   *)
(*                                                                         *)
(* One action is one script run of main().  A run whose handler ends       *)
(* with st.rerun() stops there: it shows the handler's message and never   *)
(* reaches the statistics panel; the run that follows is a run like any    *)
(* other (a plain rerun, or the run of the next widget event) and renders  *)
(* the panel.  A run whose handler returns goes on to the panel.           *)
(*                                                                         *)
(* Numbers: catalog coordinates are whole percents.  Every float of the    *)
(* program (a draw, a gaze coordinate, a confidence, an error, the mean,   *)
(* the score) is fixed-point: an integer count of 1/Scale, rounded down.   *)
(* The values np.random returns are inputs of the handlers: the two        *)
(* normal draws of a record are chosen one by one from random_normal, the  *)
(* 300 uniform draws of a gaze batch are one sequence of UniformBatches.   *)
(* `rng` remembers the latest normal draws.  A behaviour is bounded in     *)
(* how often its outside inputs change (MaxChanges): the subject typed, a  *)
(* batch of gaze points drawn, and normal draws that differ from the       *)
(* draws before them.  The wall clock is not modelled: every reading of    *)
(* datetime.now() is one token.                                            *)
(***************************************************************************)
EXTENDS Integers, Sequences, FiniteSets, TLC

VARIABLES
  calibration_data,  \* st.session_state.calibration_data
  gaze_data,         \* st.session_state.gaze_data
  is_calibrated,     \* st.session_state.is_calibrated
  current_point,     \* st.session_state.current_point
  subject_name,      \* st.session_state.subject_name
  rng,               \* np.random: the latest pair of normal draws (<<>>: none yet)
  notice,            \* message call of the handler of the last run
  download,          \* document behind the download button of the last run
  metrics,           \* st.metric calls of the last run (<<>>: panel not reached)
  before,            \* history: status and sizes before the last run
  run,               \* history: records since the last start (-1: none)
  changes,           \* history: number of changes of the outside inputs
  direct             \* history: number of handler calls made outside main()

session == <<calibration_data, gaze_data, is_calibrated, current_point, subject_name>>
vars == <<calibration_data, gaze_data, is_calibrated, current_point, subject_name,
          rng, notice, download, metrics, before, run, changes, direct>>

----------------------------------------------------------------------------
(* Bounds of the model *)

MaxChanges == 1
MaxDirect == 1
MaxAggLen == 3
Scale == 1000

(* Program constants *)

N == 17
GazeBatch == 100
UniformDraws == 3

Subjects == {"Test Subject", "S01"}

\* datetime.now().isoformat(): the clock's reading, an opaque token
datetime_now == "now"

CALIBRATION_POINTS == <<
  [id |-> 1,  x |-> 10, y |-> 10, name |-> "Top-Left"],
  [id |-> 2,  x |-> 50, y |-> 10, name |-> "Top-Center"],
  [id |-> 3,  x |-> 90, y |-> 10, name |-> "Top-Right"],
  [id |-> 4,  x |-> 10, y |-> 30, name |-> "Upper-Left"],
  [id |-> 5,  x |-> 50, y |-> 30, name |-> "Upper-Center"],
  [id |-> 6,  x |-> 90, y |-> 30, name |-> "Upper-Right"],
  [id |-> 7,  x |-> 10, y |-> 50, name |-> "Center-Left"],
  [id |-> 8,  x |-> 50, y |-> 50, name |-> "Center"],
  [id |-> 9,  x |-> 90, y |-> 50, name |-> "Center-Right"],
  [id |-> 10, x |-> 10, y |-> 70, name |-> "Lower-Left"],
  [id |-> 11, x |-> 50, y |-> 70, name |-> "Lower-Center"],
  [id |-> 12, x |-> 90, y |-> 70, name |-> "Lower-Right"],
  [id |-> 13, x |-> 10, y |-> 90, name |-> "Bottom-Left"],
  [id |-> 14, x |-> 50, y |-> 90, name |-> "Bottom-Center"],
  [id |-> 15, x |-> 90, y |-> 90, name |-> "Bottom-Right"],
  [id |-> 16, x |-> 30, y |-> 20, name |-> "Extra Point 1"],
  [id |-> 17, x |-> 70, y |-> 80, name |-> "Extra Point 2"] >>

----------------------------------------------------------------------------
(* np.random: what its calls may return, in 1/Scale *)

\* np.random.normal(0, 2): the values one call returns here (0.5, -1.25)
random_normal == {Scale \div 2, 0 - ((5 * Scale) \div 4)}

\* the two calls of one record, each with any of the values
NormalPairs == random_normal \X random_normal

\* the generators a unit draw is taken from
UniformStreams == {1, 2}

\* the j-th unit draw of a generator: a fraction of [0, 1) in 1/Scale
uniform_unit(stream, j) == ((j * (389 + (222 * stream))) + (97 * stream)) % Scale

\* the draws of one batch after `drawn` earlier draws: call by call from one
\* generator on the odd calls and one on the even calls
UniformBatches(drawn) ==
  {[j \in 1..(UniformDraws * GazeBatch) |->
      uniform_unit(IF j % 2 = 1 THEN odd ELSE even, drawn + j)] :
     odd \in UniformStreams, even \in UniformStreams}

\* np.random.uniform(low, high) for the unit draw u
random_uniform(low, high, u) == low + (((high - low) * u) \div Scale)

----------------------------------------------------------------------------
(* Status panel *)

\* display_calibration_status: the status class chosen for session values
status_class(cal, cp) ==
  IF ~cal /\ cp = 0 THEN "status-not-calibrated"
  ELSE IF ~cal /\ cp > 0 THEN "status-calibrating"
  ELSE "status-calibrated"

display_calibration_status == status_class(is_calibrated, current_point)

----------------------------------------------------------------------------
(* Statistics panel *)

Abs(v) == IF v < 0 THEN 0 - v ELSE v

Max(a, b) == IF a >= b THEN a ELSE b

RECURSIVE sqrt_from(_, _)
\* the largest r with r * r <= v, by Newton's steps down from g >= r
sqrt_from(v, g) ==
  LET h == (g + (v \div g)) \div 2
  IN  IF h >= g THEN g ELSE sqrt_from(v, h)

\* np.sqrt(ex**2 + ey**2) for errors in 1/Scale
np_sqrt(ex, ey) == IF ex + ey = 0 THEN 0 ELSE sqrt_from((ex * ex) + (ey * ey), ex + ey)

\* df['error_x'], df['error_y'], df['total_error'] of one row
error_x(rec) == Abs((rec.target_x * Scale) - rec.gaze_x)
error_y(rec) == Abs((rec.target_y * Scale) - rec.gaze_y)
total_error(rec) == np_sqrt(error_x(rec), error_y(rec))

RECURSIVE total_error_upto(_, _)
\* the sum of total_error over the first k rows
total_error_upto(cd, k) ==
  IF k = 0 THEN 0 ELSE total_error(cd[k]) + total_error_upto(cd, k - 1)

total_error_sum(cd) == total_error_upto(cd, Len(cd))

\* df['total_error'].mean()
avg_error(cd) == total_error_sum(cd) \div Len(cd)

\* the score without its floor of 0
accuracy_score_unclamped(avg) == (100 * Scale) - (avg * 10)

\* max(0, 100 - (avg_error * 10))
accuracy_score(avg) == Max(0, (100 * Scale) - (avg * 10))

\* the st.metric calls of display_statistics, in call order, as <<label, value>>
display_statistics(cd, gd) ==
  (IF cd # <<>>
     THEN LET avg == avg_error(cd)
          IN  << <<"Average Error", avg>>,
                 <<"Calibration Points", Len(cd)>>,
                 <<"Accuracy Score", accuracy_score(avg)>> >>
     ELSE <<>>)
  \o
  (IF gd # <<>> THEN << <<"Gaze Data Points", Len(gd)>> >> ELSE <<>>)

\* the labels shown, and the value shown under a label
metric_labels(m) == {m[i][1] : i \in 1..Len(m)}
metric_value(m, label) == m[CHOOSE i \in 1..Len(m) : m[i][1] = label][2]

----------------------------------------------------------------------------
(* Export document *)

json_bool(b) == IF b THEN "true" ELSE "false"

\* json.dumps of one calibration record: its items in insertion order
json_record(rec) ==
  << <<"point_id", rec.point_id>>, <<"point_name", rec.point_name>>,
     <<"target_x", rec.target_x>>, <<"target_y", rec.target_y>>,
     <<"gaze_x", rec.gaze_x>>, <<"gaze_y", rec.gaze_y>>,
     <<"timestamp", rec.timestamp>>, <<"subject", rec.subject>> >>

\* json.dumps of one gaze point
json_gaze(g) ==
  << <<"x", g.x>>, <<"y", g.y>>, <<"timestamp", g.timestamp>>,
     <<"confidence", g.confidence>> >>

\* json.dumps(export_data): the items of the export dict in insertion order
json_dumps(d) ==
  << <<"subject_name", d.subject_name>>,
     <<"export_timestamp", d.export_timestamp>>,
     <<"calibration_data", [i \in 1..Len(d.calibration_data) |-> json_record(d.calibration_data[i])]>>,
     <<"gaze_data", [i \in 1..Len(d.gaze_data) |-> json_gaze(d.gaze_data[i])]>>,
     <<"is_calibrated", json_bool(d.is_calibrated)>>,
     <<"total_calibration_points", d.total_calibration_points>>,
     <<"total_gaze_points", d.total_gaze_points>> >>

\* the value of a key of a JSON object
json_get(doc, key) == doc[CHOOSE i \in 1..Len(doc) : doc[i][1] = key][2]

\* the export dict with the two counts exchanged
export_dict_swapped_counts ==
  [subject_name |-> subject_name,
   export_timestamp |-> datetime_now,
   calibration_data |-> calibration_data,
   gaze_data |-> gaze_data,
   is_calibrated |-> is_calibrated,
   total_calibration_points |-> Len(gaze_data),
   total_gaze_points |-> Len(calibration_data)]

\* the export dict built by export_data
export_dict ==
  [subject_name |-> subject_name,
   export_timestamp |-> datetime_now,
   calibration_data |-> calibration_data,
   gaze_data |-> gaze_data,
   is_calibrated |-> is_calibrated,
   total_calibration_points |-> Len(calibration_data),
   total_gaze_points |-> Len(gaze_data)]

----------------------------------------------------------------------------
(* Handlers: their effect on the session, the generator and the message *)

\* start without clearing the recorded data
start_calibration_keeps_data ==
  /\ current_point' = 1
  /\ is_calibrated' = FALSE
  /\ notice' = "Calibration started"
  /\ UNCHANGED <<calibration_data, gaze_data, subject_name, rng>>

\* start without resetting the calibrated flag
start_calibration_keeps_flag ==
  /\ calibration_data' = <<>>
  /\ current_point' = 1
  /\ notice' = "Calibration started"
  /\ UNCHANGED <<is_calibrated, gaze_data, subject_name, rng>>

start_calibration ==
  /\ calibration_data' = <<>>
  /\ current_point' = 1
  /\ is_calibrated' = FALSE
  /\ notice' = "Calibration started"
  /\ UNCHANGED <<gaze_data, subject_name, rng>>

\* restart without resetting the calibrated flag
restart_calibration_keeps_flag ==
  /\ calibration_data' = <<>>
  /\ gaze_data' = <<>>
  /\ current_point' = 0
  /\ notice' = "Calibration restarted"
  /\ UNCHANGED <<is_calibrated, subject_name, rng>>

\* restart without clearing the gaze stream
restart_calibration_keeps_gaze ==
  /\ calibration_data' = <<>>
  /\ current_point' = 0
  /\ is_calibrated' = FALSE
  /\ notice' = "Calibration restarted"
  /\ UNCHANGED <<gaze_data, subject_name, rng>>

restart_calibration ==
  /\ calibration_data' = <<>>
  /\ gaze_data' = <<>>
  /\ current_point' = 0
  /\ is_calibrated' = FALSE
  /\ notice' = "Calibration restarted"
  /\ UNCHANGED <<subject_name, rng>>

\* the record built for point_data with the two normal draws of noise
calibration_record(point_data, noise, subject) ==
  [point_id |-> point_data.id,
   point_name |-> point_data.name,
   target_x |-> point_data.x,
   target_y |-> point_data.y,
   gaze_x |-> (point_data.x * Scale) + noise[1],
   gaze_y |-> (point_data.y * Scale) + noise[2],
   timestamp |-> datetime_now,
   subject |-> subject]

\* completion one point early (>= for >), and one point late
calibration_complete_early(cp) == cp >= Len(CALIBRATION_POINTS)
calibration_complete_late(cp) == cp > Len(CALIBRATION_POINTS) + 1

\* len(CALIBRATION_POINTS) exceeded: calibration is complete
calibration_complete(cp) == cp > Len(CALIBRATION_POINTS)

record_calibration_point(point_data) ==
  \E noise \in NormalPairs :
    /\ calibration_data' = Append(calibration_data, calibration_record(point_data, noise, subject_name))
    /\ current_point' = current_point + 1
    /\ rng' = noise
    /\ IF calibration_complete(current_point')
         THEN /\ is_calibrated' = TRUE
              /\ notice' = "Calibration completed"
         ELSE /\ is_calibrated' = is_calibrated
              /\ notice' = "Point calibrated"
    /\ UNCHANGED <<gaze_data, subject_name>>

\* the point before the current one (index current_point - 2; -1 is the last)
display_active_calibration_previous ==
  record_calibration_point(
    IF current_point = 1 THEN CALIBRATION_POINTS[Len(CALIBRATION_POINTS)]
    ELSE CALIBRATION_POINTS[current_point - 1])

\* the button of the current point was clicked; an index past the list raises
display_active_calibration ==
  IF current_point - 1 < Len(CALIBRATION_POINTS)
    THEN record_calibration_point(CALIBRATION_POINTS[current_point])
    ELSE /\ notice' = "IndexError"
         /\ UNCHANGED <<session, rng>>

\* the interface offers the point button only while calibrating
display_calibration_interface ==
  /\ current_point > 0
  /\ ~is_calibrated
  /\ display_active_calibration

start_study ==
  /\ IF ~is_calibrated
       THEN notice' = "Please complete calibration first"
       ELSE notice' = "Study started"
  /\ UNCHANGED <<session, rng>>

\* the i-th point of a batch: the three unit draws of its calls
sample_point(draws, i) ==
  [x |-> random_uniform(0, 100 * Scale, draws[(UniformDraws * (i - 1)) + 1]),
   y |-> random_uniform(0, 100 * Scale, draws[(UniformDraws * (i - 1)) + 2]),
   timestamp |-> datetime_now,
   confidence |-> random_uniform((7 * Scale) \div 10, Scale, draws[(UniformDraws * (i - 1)) + 3])]

generate_sample_gaze_data ==
  \E draws \in UniformBatches(UniformDraws * Len(gaze_data)) :
    /\ gaze_data' = gaze_data \o [i \in 1..GazeBatch |-> sample_point(draws, i)]
    /\ notice' = "Generated sample gaze data"
    /\ UNCHANGED <<calibration_data, is_calibrated, current_point, subject_name, rng>>

export_data ==
  /\ download' = json_dumps(export_dict)
  /\ notice' = "Data ready for download"
  /\ UNCHANGED <<session, rng>>

----------------------------------------------------------------------------
(* History kept beside the program state *)

Snapshot ==
  [status |-> display_calibration_status,
   samples |-> Len(calibration_data),
   gaze |-> Len(gaze_data)]

\* an outside input changes: the subject typed, a batch of gaze points
\* drawn, or a pair of normal draws other than the pair before it
InputChanged ==
  \/ subject_name' # subject_name
  \/ Len(gaze_data') > Len(gaze_data)
  \/ rng # <<>> /\ rng' # rng

History(op) ==
  /\ changes' = changes + (IF InputChanged THEN 1 ELSE 0)
  /\ changes' <= MaxChanges
  /\ before' = Snapshot
  /\ run' = IF op = "start" THEN 0
            ELSE IF op = "restart" THEN 0 - 1
            ELSE IF op = "record" /\ run >= 0
                    /\ Len(calibration_data') = Len(calibration_data) + 1
                   THEN run + 1
            ELSE run

\* the rest of a script run whose handler returned: the statistics panel
Rendered == metrics' = display_statistics(calibration_data', gaze_data')

\* a script run ended by st.rerun(): display_statistics is not reached
Stopped == metrics' = <<>>

----------------------------------------------------------------------------
(* Script runs of main(): one widget interaction each *)

\* st.text_input("Subject Name") returns an edited name
subject_input(name) ==
  /\ name # subject_name
  /\ subject_name' = name
  /\ UNCHANGED <<calibration_data, gaze_data, is_calibrated, current_point, rng>>
  /\ notice' = ""
  /\ download' = <<>>
  /\ Rendered /\ History("other")
  /\ UNCHANGED direct

start_button ==
  /\ start_calibration
  /\ download' = <<>>
  /\ Stopped /\ History("start")
  /\ UNCHANGED direct

restart_button ==
  /\ restart_calibration
  /\ download' = <<>>
  /\ Stopped /\ History("restart")
  /\ UNCHANGED direct

\* the Start Study button is disabled until calibrated
study_button ==
  /\ is_calibrated
  /\ start_study
  /\ download' = <<>>
  /\ Rendered /\ History("other")
  /\ UNCHANGED direct

export_button ==
  /\ export_data
  /\ Rendered /\ History("other")
  /\ UNCHANGED direct

generate_button ==
  /\ changes < MaxChanges
  /\ generate_sample_gaze_data
  /\ download' = <<>>
  /\ Stopped /\ History("other")
  /\ UNCHANGED direct

point_button ==
  /\ display_calibration_interface
  /\ download' = <<>>
  /\ Stopped /\ History("record")
  /\ UNCHANGED direct

\* a script run in which no button reports a click: the run st.rerun()
\* starts, or the run of any other interaction
rerun ==
  /\ UNCHANGED <<session, rng>>
  /\ notice' = ""
  /\ download' = <<>>
  /\ Rendered /\ History("other")
  /\ UNCHANGED direct

----------------------------------------------------------------------------
(* Handlers called directly, outside the widgets of main() *)

DirectPoints == {CALIBRATION_POINTS[1], CALIBRATION_POINTS[Len(CALIBRATION_POINTS)]}

\* record_calibration_point called where the interface shows no point button
direct_record(point_data) ==
  /\ direct < MaxDirect
  /\ display_calibration_status # "status-calibrating"
  /\ record_calibration_point(point_data)
  /\ download' = <<>>
  /\ Stopped /\ History("record")
  /\ direct' = direct + 1

\* start_study called while its button is disabled
direct_start_study ==
  /\ direct < MaxDirect
  /\ ~is_calibrated
  /\ start_study
  /\ download' = <<>>
  /\ Rendered /\ History("other")
  /\ direct' = direct + 1

----------------------------------------------------------------------------
(* Specifications *)

\* the session after lines 19-28 and the first script run
Init ==
  /\ calibration_data = <<>>
  /\ gaze_data = <<>>
  /\ is_calibrated = FALSE
  /\ current_point = 0
  /\ subject_name = "Test Subject"
  /\ rng = <<>>
  /\ notice = ""
  /\ download = <<>>
  /\ metrics = <<>>
  /\ before = [status |-> "status-not-calibrated", samples |-> 0, gaze |-> 0]
  /\ run = 0 - 1
  /\ changes = 0
  /\ direct = 0

Next ==
  \/ \E name \in Subjects : subject_input(name)
  \/ start_button
  \/ restart_button
  \/ study_button
  \/ export_button
  \/ generate_button
  \/ point_button
  \/ rerun

Spec == Init /\ [][Next]_vars

NextDirect ==
  \/ Next
  \/ \E point_data \in DirectPoints : direct_record(point_data)
  \/ direct_start_study

SpecDirect == Init /\ [][NextDirect]_vars

----------------------------------------------------------------------------
(* The statistics panel on stored calibration data of any shape *)

\* gaze offsets in 1/Scale: none, (3, 4), (6, 8), (0.5, -1.25), (-5, 12)
AggOffsets ==
  {<<0, 0>>, <<3 * Scale, 4 * Scale>>, <<6 * Scale, 8 * Scale>>,
   <<Scale \div 2, 0 - ((5 * Scale) \div 4)>>, <<0 - (5 * Scale), 12 * Scale>>}

\* the record of the i-th point with the gaze off target by off
offset_record(i, off) == calibration_record(CALIBRATION_POINTS[i], off, "Test Subject")

AggInputs ==
  {[i \in 1..Len(offs) |-> offset_record(i, offs[i])] :
     offs \in (UNION {[1..n -> AggOffsets] : n \in 0..MaxAggLen})
              \cup {[i \in 1..N |-> off] : off \in AggOffsets}}

\* a session holding the first points' records, before a script run renders it
InitAgg ==
  /\ calibration_data \in AggInputs
  /\ gaze_data = <<>>
  /\ is_calibrated = (Len(calibration_data) = N)
  /\ current_point = Len(calibration_data) + 1
  /\ subject_name = "Test Subject"
  /\ rng = <<>>
  /\ notice = ""
  /\ download = <<>>
  /\ metrics = <<>>
  /\ before = [status |-> "none", samples |-> 0, gaze |-> 0]
  /\ run = 0 - 1
  /\ changes = 0
  /\ direct = 0

SpecAgg == InitAgg /\ [][rerun]_vars

----------------------------------------------------------------------------
(* Properties *)

Idle == current_point = 0 /\ ~is_calibrated
Active == current_point \in 1..N /\ ~is_calibrated
Completed == is_calibrated

StatusAfter == status_class(is_calibrated', current_point')

RecordMessages == {"Point calibrated", "Calibration completed"}

\* C1: a run begun by start() is calibrated with N samples after exactly N
\* recorded points, and after k < N recorded points it is not calibrated and
\* holds k samples.
C1_RunCompletesAtN ==
  run >= 0 =>
    /\ run <= N
    /\ (run = N => is_calibrated /\ Len(calibration_data) = N)
    /\ (run < N => ~is_calibrated /\ Len(calibration_data) = run)

C1_Witness ==
  /\ run = N
  /\ is_calibrated
  /\ notice = "Calibration completed"
  /\ before.samples = N - 1

\* C2: while started and not calibrated the samples are one short of the
\* cursor; once calibrated there are exactly N samples.
C2_SamplesFollowCursor ==
  /\ (current_point > 0 /\ ~is_calibrated => Len(calibration_data) = current_point - 1)
  /\ (is_calibrated => Len(calibration_data) = N)

C2_Witness ==
  /\ current_point = 9
  /\ ~is_calibrated
  /\ Len(calibration_data) = 8
  /\ Len(gaze_data) = GazeBatch
  /\ notice = "Data ready for download"

\* C3: a record made while Idle or Completed fails with an explicit signal
\* and leaves samples, cursor and calibrated flag unchanged.
C3_RecordOutsideActiveRejected ==
  [][(\E point_data \in DirectPoints : direct_record(point_data))
       => /\ UNCHANGED <<calibration_data, current_point, is_calibrated>>
          /\ notice' \notin RecordMessages]_vars

\* the place of a status in the order Idle -> Active -> Completed
StatusRank(status) ==
  IF status = "status-not-calibrated" THEN 0
  ELSE IF status = "status-calibrating" THEN 1
  ELSE 2

\* C4 as stated: the status only moves forward Idle -> Active -> Completed;
\* a status that was left is entered again only by a restart.
C4_NoReentryWithoutRestart ==
  [][notice' # "Calibration restarted"
       => StatusRank(StatusAfter) >= StatusRank(display_calibration_status)]_vars

\* C4 as amended: every step other than start and restart keeps the status
\* or moves Active to Completed; restart lands in Idle; start lands in
\* Active at the first target, from whatever status.
C4_ForwardExceptStartAndRestart ==
  [][/\ notice' \notin {"Calibration restarted", "Calibration started"}
          => \/ StatusAfter = display_calibration_status
             \/ /\ display_calibration_status = "status-calibrating"
                /\ StatusAfter = "status-calibrated"
     /\ notice' = "Calibration restarted" => StatusAfter = "status-not-calibrated"
     /\ notice' = "Calibration started"
          => StatusAfter = "status-calibrating" /\ current_point' = 1]_vars

C4_Witness ==
  /\ notice = "Calibration started"
  /\ before.status = "status-calibrated"
  /\ display_calibration_status = "status-calibrating"

\* C5: restart from any state yields the same Idle state: no samples, no
\* gaze stream, cursor 0, not calibrated; a second restart changes nothing.
C5_RestartYieldsIdle ==
  [][notice' = "Calibration restarted"
       => /\ calibration_data' = <<>>
          /\ gaze_data' = <<>>
          /\ current_point' = 0
          /\ is_calibrated' = FALSE
          /\ (notice = "Calibration restarted" => session' = session)]_vars

C5_Witness ==
  /\ notice = "Calibration restarted"
  /\ before.gaze = GazeBatch
  /\ before.status = "status-calibrated"
  /\ gaze_data = <<>>

\* C6: start is accepted in every state and yields no samples, cursor 1, not
\* calibrated, with the gaze stream and the subject name as they were.
C6_StartResetsRun ==
  /\ [](ENABLED start_calibration)
  /\ [][notice' = "Calibration started"
          => /\ calibration_data' = <<>>
             /\ current_point' = 1
             /\ is_calibrated' = FALSE
             /\ gaze_data' = gaze_data
             /\ subject_name' = subject_name]_vars

C6_Witness ==
  /\ notice = "Calibration started"
  /\ before.status = "status-calibrated"
  /\ before.samples = N
  /\ calibration_data = <<>>
  /\ Len(gaze_data) = GazeBatch
  /\ before.gaze = GazeBatch

\* C7: the k-th sample is the k-th catalog target (id, name, x, y), and each
\* record appends one sample for the target at the cursor and moves the
\* cursor by one.
C7_CatalogOrder ==
  /\ [](\A k \in 1..Len(calibration_data) :
          /\ k <= N
          /\ calibration_data[k].point_id = k
          /\ calibration_data[k].point_name = CALIBRATION_POINTS[k].name
          /\ calibration_data[k].target_x = CALIBRATION_POINTS[k].x
          /\ calibration_data[k].target_y = CALIBRATION_POINTS[k].y)
  /\ [][notice' \in RecordMessages
          => /\ Len(calibration_data') = Len(calibration_data) + 1
             /\ SubSeq(calibration_data', 1, Len(calibration_data)) = calibration_data
             /\ calibration_data'[Len(calibration_data')].point_id = current_point
             /\ current_point' = current_point + 1]_vars

C7_Witness ==
  /\ Len(calibration_data) = N
  /\ calibration_data[N].point_id = N
  /\ calibration_data[1].subject # calibration_data[N].subject
  /\ notice = "Calibration completed"

\* C8: export is accepted in every state, changes nothing of the session, and
\* its document carries the counts, the flag and the samples in order.
C8_ExportReadOnly ==
  /\ [](ENABLED export_data)
  /\ [][notice' = "Data ready for download"
          => /\ session' = session
             /\ json_get(download', "total_calibration_points") = Len(calibration_data)
             /\ json_get(download', "total_gaze_points") = Len(gaze_data)
             /\ (json_get(download', "is_calibrated") = "true") = is_calibrated
             /\ Len(json_get(download', "calibration_data")) = Len(calibration_data)
             /\ Len(json_get(download', "gaze_data")) = Len(gaze_data)
             /\ \A k \in 1..Len(calibration_data) :
                  LET item == json_get(download', "calibration_data")[k]
                      rec == calibration_data[k]
                  IN  /\ json_get(item, "point_id") = rec.point_id
                      /\ json_get(item, "target_x") = rec.target_x
                      /\ json_get(item, "target_y") = rec.target_y
                      /\ json_get(item, "gaze_x") = rec.gaze_x
                      /\ json_get(item, "gaze_y") = rec.gaze_y
                      /\ json_get(item, "subject") = rec.subject]_vars

C8_Witness ==
  /\ notice = "Data ready for download"
  /\ calibration_data = <<>>
  /\ gaze_data = <<>>
  /\ json_get(download, "total_calibration_points") = 0
  /\ json_get(download, "calibration_data") = <<>>

CalibrationLabels == {"Average Error", "Calibration Points", "Accuracy Score"}

ConstantOffset(off) ==
  \A k \in 1..Len(calibration_data) :
    /\ calibration_data[k].gaze_x - (calibration_data[k].target_x * Scale) = off[1]
    /\ calibration_data[k].gaze_y - (calibration_data[k].target_y * Scale) = off[2]

AggregateOfSamples ==
  /\ CalibrationLabels \subseteq metric_labels(metrics)
  /\ metric_value(metrics, "Calibration Points") = Len(calibration_data)
  /\ LET avg == metric_value(metrics, "Average Error")
         score == metric_value(metrics, "Accuracy Score")
     IN  /\ avg >= 0
         /\ score >= 0 /\ score <= 100 * Scale
         /\ (avg >= 10 * Scale => score = 0)
         /\ (avg < 10 * Scale => score = (100 * Scale) - (10 * avg))
         /\ (ConstantOffset(<<0, 0>>) => avg = 0 /\ score = 100 * Scale)
         /\ (ConstantOffset(<<3 * Scale, 4 * Scale>>) => avg = 5 * Scale /\ score = 50 * Scale)

\* C9 as stated: every rendering, of the empty sequence too, reports the
\* sample count with an average error and a score = max(0, 100 - 10 * average).
C9_AggregateAlwaysReported ==
  before.status # "none" => AggregateOfSamples

\* C9 as amended: a rendering of a non-empty sequence reports the count, the
\* average error and score = max(0, 100 - 10 * average) within [0, 100];
\* a rendering of the empty sequence reports none of the three.
C9_AggregateWhenNonEmpty ==
  before.status # "none" =>
    IF calibration_data # <<>>
      THEN AggregateOfSamples
      ELSE metric_labels(metrics) \cap CalibrationLabels = {}

C9_Witness ==
  /\ before.status # "none"
  /\ Len(calibration_data) = N
  /\ metric_value(metrics, "Average Error") >= 10 * Scale
  /\ metric_value(metrics, "Accuracy Score") = 0

\* C10: an Active session has its cursor in 1..N; the cursor is N + 1 only
\* when calibrated; exactly one of Idle, Active, Completed holds.
C10_CursorInRange ==
  /\ (current_point > 0 /\ ~is_calibrated => current_point \in 1..N)
  /\ (current_point = N + 1 => is_calibrated)
  /\ current_point \in 0..(N + 1)
  /\ (Idle \/ Active \/ Completed)
  /\ ~(Idle /\ Active) /\ ~(Idle /\ Completed) /\ ~(Active /\ Completed)

C10_Witness ==
  /\ current_point = N
  /\ ~is_calibrated
  /\ Len(calibration_data) = N - 1
  /\ notice = "Point calibrated"

====
